---------------------------- MODULE Spec2Model ----------------------------
(***************************************************************************)
(* Karaoke player (TEJ3M-Summative.ino): the song catalog, the lyric       *)
(* indexer getLineInfoFromNotesPlayed, the line extractor getLyricLine     *)
(* and the playback engine playSong driven from loop().                    *)
(*                                                                         *)
(* Characters are their byte codes (10 = '\n', 13 = '\r', 32 = ' ',        *)
(* 0 = '\0'); a flash string is the sequence of its bytes without the      *)
(* closing '\0'.  C arrays are 0-based, sequences 1-based: a[i] in the     *)
(* source is a[i + 1] here.                                                *)
(***************************************************************************)
EXTENDS Integers, Sequences, FiniteSets

(* ------------------------------------------------------------------ *)
(* Program constants                                                   *)
(* ------------------------------------------------------------------ *)
NOTE_REST == 0
SONG_COUNT == 3
MAX_NOTES == 65
MAX_LINES == 30
LED_COUNT == 5
LCD_COLS == 16
LINE_BUF_SIZE == 17
NO_LINE == -999
NUL == 0
LF == 10
CR == 13
SPACE == 32
BYTE_MOD == 256

(* ------------------------------------------------------------------ *)
(* Bounds of the model                                                 *)
(* ------------------------------------------------------------------ *)
\* test songs have 0..MaxLen notes
MaxLen == 3
\* test line tables define 0..MaxDefLines lines before the terminator
MaxDefLines == 2
\* the largest note count of one line of a test table
MaxCount == 2
\* test lyric texts have 0..MaxTextLen bytes
MaxTextLen == 4
\* line indices asked of getLyricLine: 0..MaxLineIdx
MaxLineIdx == 3
\* buffer sizes passed to getLyricLine: 0..MaxOutSize
MaxOutSize == 4
\* notesPlayed asked of the indexer on a line table without terminator
\* runs up to MAX_LINES * 1 + MaxBeyond
MaxBeyond == 2

(* ------------------------------------------------------------------ *)
(* Song catalog (melodyLen, tempoBPM, melodyNotes, durationUnits,      *)
(* ledIndex, lyricsN, lineNoteCounts).  Rows shorter than the array    *)
(* width are zero-filled by the compiler.                              *)
(* ------------------------------------------------------------------ *)
melodyLen == << 65, 42, 48 >>

tempoBPM == << 45, 96, 66 >>

melodyNotes0 ==
  << 494, 494, 494, 440, 392, 392, 440, 494, 494, 494, 494, 440, 392, 392, 440, 494,
     440, 392, 494, 494, 494, 440, 392, 392, 440, 494, 587, 294, 294, 294, 330, 494,
     494, 440, 392, 440, 494, 392, 587, 494, 440, 392, 440, 392, 392, 440, 494, 587,
     659, 587, 587, 587, 659, 494, 494, 440, 392, 392, 392, 440, 494, 440, 392, 392,
     0 >>

durationUnits0 ==
  << 1, 1, 1, 2, 1, 1, 1, 2, 1, 1, 1, 2, 1, 1, 1, 1,
     1, 2, 1, 1, 1, 2, 1, 1, 1, 1, 2, 1, 1, 1, 1, 1,
     2, 1, 1, 1, 1, 2, 1, 1, 2, 1, 1, 2, 1, 1, 2, 1,
     1, 2, 1, 1, 1, 2, 1, 1, 1, 2, 1, 1, 2, 1, 1, 4,
     0 >>

ledIndex0 ==
  << 2, 2, 2, 1, 0, 0, 1, 2, 2, 2, 2, 1, 0, 0, 1, 2,
     1, 0, 2, 2, 2, 1, 0, 0, 1, 2, 3, 3, 3, 3, 4, 2,
     2, 1, 0, 1, 2, 0, 3, 2, 1, 0, 1, 0, 0, 1, 2, 3,
     4, 3, 3, 3, 4, 2, 2, 1, 0, 0, 0, 1, 2, 1, 0, 0,
     0 >>

lyrics1 ==
  << 65, 108, 109, 111, 115, 116, 32, 104, 101, 97, 118, 101, 110, 44, 10, 87,
     101, 115, 116, 32, 86, 105, 114, 103, 105, 110, 105, 97, 44, 10, 66, 108,
     117, 101, 32, 82, 105, 100, 103, 101, 32, 77, 116, 110, 115, 44, 10, 83,
     104, 101, 110, 97, 110, 100, 111, 97, 104, 32, 82, 118, 114, 10, 76, 105,
     102, 101, 39, 115, 32, 111, 108, 100, 32, 116, 104, 101, 114, 101, 44, 10,
     111, 108, 100, 101, 114, 32, 116, 104, 97, 110, 32, 116, 114, 101, 101, 115,
     44, 10, 89, 111, 117, 110, 103, 101, 114, 32, 116, 104, 97, 110, 32, 109,
     116, 110, 10, 103, 114, 111, 119, 105, 110, 32, 108, 105, 107, 101, 32, 98,
     114, 122, 10, 67, 111, 117, 110, 116, 114, 121, 32, 114, 111, 97, 100, 115,
     44, 10, 116, 97, 107, 101, 32, 109, 101, 32, 104, 111, 109, 101, 44, 10,
     84, 111, 32, 116, 104, 101, 32, 112, 108, 97, 99, 101, 10, 73, 32, 98,
     101, 108, 111, 110, 103, 44, 10, 87, 101, 115, 116, 32, 86, 105, 114, 103,
     105, 110, 105, 97, 44, 10, 109, 111, 117, 110, 116, 97, 105, 110, 32, 109,
     97, 109, 97, 44, 10, 84, 97, 107, 101, 32, 109, 101, 32, 104, 111, 109,
     101, 44, 10, 99, 111, 117, 110, 116, 114, 121, 32, 114, 111, 97, 100, 115,
     46 >>

lineNoteCounts0 ==
  << 4, 4, 4, 6, 4, 5, 6, 5, 3, 3, 3, 3, 4, 4, 3, 4,
     0, 0, 0, 0, 0, 0, 0, 0, 0, 0, 0, 0, 0, 0 >>

melodyNotes1 ==
  << 262, 262, 392, 392, 440, 440, 392, 349, 349, 330, 330, 294, 294, 262, 392, 392,
     349, 349, 330, 330, 294, 392, 392, 349, 349, 330, 330, 294, 262, 262, 392, 392,
     440, 440, 392, 349, 349, 330, 330, 294, 294, 262, 0, 0, 0, 0, 0, 0,
     0, 0, 0, 0, 0, 0, 0, 0, 0, 0, 0, 0, 0, 0, 0, 0,
     0 >>

durationUnits1 ==
  << 2, 2, 2, 2, 2, 2, 4, 2, 2, 2, 2, 2, 2, 4, 2, 2,
     2, 2, 2, 2, 4, 2, 2, 2, 2, 2, 2, 4, 2, 2, 2, 2,
     2, 2, 4, 2, 2, 2, 2, 2, 2, 4, 1, 1, 1, 1, 1, 1,
     1, 1, 1, 1, 1, 1, 1, 1, 1, 1, 1, 1, 1, 1, 1, 1,
     1 >>

ledIndex1 ==
  << 0, 0, 1, 1, 2, 2, 1, 3, 3, 4, 4, 0, 0, 0, 1, 1,
     3, 3, 4, 4, 0, 1, 1, 3, 3, 4, 4, 0, 0, 0, 1, 1,
     2, 2, 1, 3, 3, 4, 4, 0, 0, 0, 0, 0, 0, 0, 0, 0,
     0, 0, 0, 0, 0, 0, 0, 0, 0, 0, 0, 0, 0, 0, 0, 0,
     0 >>

lyrics2 ==
  << 66, 97, 97, 32, 98, 97, 97, 10, 98, 108, 97, 99, 107, 32, 115, 104,
     101, 101, 112, 10, 104, 97, 118, 101, 32, 121, 111, 117, 10, 97, 110, 121,
     32, 119, 111, 111, 108, 63, 10, 89, 101, 115, 32, 115, 105, 114, 10, 121,
     101, 115, 32, 115, 105, 114, 10, 116, 104, 114, 101, 101, 32, 98, 97, 103,
     115, 32, 102, 117, 108, 108, 10, 79, 110, 101, 32, 102, 111, 114, 32, 116,
     104, 101, 10, 109, 97, 115, 116, 101, 114, 10, 65, 110, 100, 32, 111, 110,
     101, 32, 102, 111, 114, 10, 116, 104, 101, 32, 100, 97, 109, 101, 10, 65,
     110, 100, 32, 111, 110, 101, 32, 102, 111, 114, 10, 116, 104, 101, 32, 108,
     105, 116, 116, 108, 101, 32, 98, 111, 121, 10, 119, 104, 111, 32, 108, 105,
     118, 101, 115, 32, 100, 111, 119, 110, 10, 116, 104, 101, 32, 108, 97, 110,
     101, 10, 66, 97, 97, 32, 98, 97, 97, 10, 98, 108, 97, 99, 107, 32,
     115, 104, 101, 101, 112, 10, 104, 97, 118, 101, 32, 121, 111, 117, 10, 97,
     110, 121, 32, 119, 111, 111, 108, 63, 10, 89, 101, 115, 32, 115, 105, 114,
     10, 121, 101, 115, 32, 115, 105, 114, 10, 116, 104, 114, 101, 101, 32, 98,
     97, 103, 115, 32, 102, 117, 108, 108 >>

lineNoteCounts1 ==
  << 2, 2, 2, 1, 2, 2, 3, 2, 2, 2, 2, 2, 2, 2, 2, 2,
     2, 2, 1, 2, 2, 3, 0, 0, 0, 0, 0, 0, 0, 0 >>

melodyNotes2 ==
  << 392, 523, 523, 523, 587, 659, 659, 659, 587, 523, 587, 659, 523, 659, 659, 698,
     784, 784, 698, 659, 698, 784, 659, 523, 523, 587, 659, 659, 587, 523, 587, 659,
     523, 392, 392, 523, 523, 523, 587, 659, 659, 659, 587, 523, 587, 659, 523, 0,
     0, 0, 0, 0, 0, 0, 0, 0, 0, 0, 0, 0, 0, 0, 0, 0,
     0 >>

durationUnits2 ==
  << 1, 1, 1, 1, 1, 1, 2, 1, 1, 1, 1, 1, 2, 1, 1, 1,
     2, 1, 1, 1, 1, 1, 2, 1, 1, 1, 2, 1, 1, 1, 1, 1,
     2, 1, 1, 1, 1, 1, 1, 1, 2, 1, 1, 1, 1, 1, 4, 1,
     1, 1, 1, 1, 1, 1, 1, 1, 1, 1, 1, 1, 1, 1, 1, 1,
     0 >>

ledIndex2 ==
  << 0, 0, 0, 0, 1, 2, 2, 2, 1, 0, 1, 2, 0, 2, 2, 3,
     4, 4, 3, 2, 3, 4, 2, 0, 0, 1, 2, 2, 1, 0, 1, 2,
     0, 4, 4, 0, 0, 0, 1, 2, 2, 2, 1, 0, 1, 2, 0, 0,
     0, 0, 0, 0, 0, 0, 0, 0, 0, 0, 0, 0, 0, 0, 0, 0,
     0 >>

lyrics3 ==
  << 84, 104, 101, 32, 105, 116, 115, 121, 32, 98, 105, 116, 115, 121, 10, 115,
     112, 105, 100, 101, 114, 10, 99, 108, 105, 109, 98, 101, 100, 32, 117, 112,
     32, 116, 104, 101, 10, 119, 97, 116, 101, 114, 32, 115, 112, 111, 117, 116,
     10, 68, 111, 119, 110, 32, 99, 97, 109, 101, 32, 116, 104, 101, 10, 114,
     97, 105, 110, 32, 97, 110, 100, 10, 119, 97, 115, 104, 101, 100, 32, 116,
     104, 101, 10, 115, 112, 105, 100, 101, 114, 32, 111, 117, 116, 10, 79, 117,
     116, 32, 99, 97, 109, 101, 32, 116, 104, 101, 10, 115, 117, 110, 32, 97,
     110, 100, 10, 100, 114, 105, 101, 100, 32, 117, 112, 32, 97, 108, 108, 10,
     116, 104, 101, 32, 114, 97, 105, 110, 10, 65, 110, 100, 32, 116, 104, 101,
     32, 105, 116, 115, 121, 10, 98, 105, 116, 115, 121, 32, 115, 112, 105, 100,
     101, 114, 10, 99, 108, 105, 109, 98, 101, 100, 32, 117, 112, 32, 116, 104,
     101, 10, 115, 112, 111, 117, 116, 32, 97, 103, 97, 105, 110 >>

lineNoteCounts2 ==
  << 5, 2, 3, 3, 3, 2, 2, 2, 3, 2, 2, 3, 4, 4, 3, 4,
     0, 0, 0, 0, 0, 0, 0, 0, 0, 0, 0, 0, 0, 0 >>

(* ------------------------------------------------------------------ *)
(* Songs.  playSong(songIdx) reads row songIdx of every table; a song  *)
(* record is that row of each table.                                   *)
(* ------------------------------------------------------------------ *)
\* const char* : NULL, or the bytes of a flash string
NullPtr == [isNull |-> TRUE, text |-> << >>]

FlashStr(s) == [isNull |-> FALSE, text |-> s]

\* getLyricsPtr(songIdx)
getLyricsPtr(songIdx) ==
  CASE songIdx = 0 -> FlashStr(lyrics1)
    [] songIdx = 1 -> FlashStr(lyrics2)
    [] songIdx = 2 -> FlashStr(lyrics3)
    [] OTHER -> NullPtr

\* The row of the tables playSong(songIdx) plays.  A catalog song is row
\* songIdx of the compiled-in tables; a test song is a row with other
\* contents, described by its parameters (see TestSong below).
CatalogSong(songIdx) == [row |-> "catalog", songIdx |-> songIdx]

Catalog == { CatalogSong(i) : i \in 0 .. SONG_COUNT - 1 }

PadTo(s, n, v) == [i \in 1 .. n |-> IF i <= Len(s) THEN s[i] ELSE v]

\* melodyLen[songIdx]
melodyLenOf(s) ==
  IF s.row = "catalog" THEN melodyLen[s.songIdx + 1] ELSE s.totalNotes

\* tempoBPM[songIdx]
tempoBPMOf(s) ==
  IF s.row = "catalog" THEN tempoBPM[s.songIdx + 1] ELSE s.bpm

\* melodyNotes[songIdx][i]
melodyNotesAt(s, i) ==
  IF s.row = "catalog"
  THEN (CASE s.songIdx = 0 -> melodyNotes0
          [] s.songIdx = 1 -> melodyNotes1
          [] OTHER -> melodyNotes2)[i + 1]
  ELSE IF i + 1 \in s.sounding THEN s.pitch ELSE NOTE_REST

\* durationUnits[songIdx][i]
durationUnitsAt(s, i) ==
  IF s.row = "catalog"
  THEN (CASE s.songIdx = 0 -> durationUnits0
          [] s.songIdx = 1 -> durationUnits1
          [] OTHER -> durationUnits2)[i + 1]
  ELSE IF i < s.totalNotes THEN s.durU ELSE 1

\* ledIndex[songIdx][i]
ledIndexAt(s, i) ==
  IF s.row = "catalog"
  THEN (CASE s.songIdx = 0 -> ledIndex0
          [] s.songIdx = 1 -> ledIndex1
          [] OTHER -> ledIndex2)[i + 1]
  ELSE IF i < s.totalNotes THEN (s.ledBase + i) % BYTE_MOD ELSE 0

\* lineNoteCounts[songIdx], the whole row
lineNoteCountsOf(s) ==
  IF s.row = "catalog"
  THEN (CASE s.songIdx = 0 -> lineNoteCounts0
          [] s.songIdx = 1 -> lineNoteCounts1
          [] OTHER -> lineNoteCounts2)
  ELSE PadTo(s.counts, MAX_LINES, 0)

\* getLyricsPtr(songIdx) for the row
lyricsOf(s) ==
  IF s.row = "catalog" THEN getLyricsPtr(s.songIdx) ELSE s.lyrics

(* ------------------------------------------------------------------ *)
(* Tempo clock                                                         *)
(* ------------------------------------------------------------------ *)
\* the eighth note rounded to the nearest millisecond
eighthMsRounded(bpm) == (60000 \div bpm + 1) \div 2

\* eighthMs(bpm), for bpm > 0: unsigned truncating division
eighthMs(bpm) == (60000 \div bpm) \div 2

\* unsigned long noteTotal = (unsigned long)durU * unitMs;
\* if (noteTotal == 0) noteTotal = 1;   (a byte times at most 30000: no wrap)
NoteTotal(durU, unitMs) ==
  IF durU * unitMs = 0 THEN 1 ELSE durU * unitMs

\* const float GATE = 0.93: the binary32 value nearest to 0.93 is
\* GATE_MANT / 2^FLOAT_BITS = 0.930000007...
GATE_MANT == 15602811

\* the significand of a binary32 float has 24 bits
FLOAT_BITS == 24

RECURSIVE Pow2(_)
Pow2(k) == IF k <= 0 THEN 1 ELSE 2 * Pow2(k - 1)

\* limbs of half a significand keep the exact product within 32-bit integers
LIMB == Pow2(FLOAT_BITS \div 2)

\* the number of binary digits of i >= 1
BitLen(i) == CHOOSE b \in 1 .. 31 : Pow2(b - 1) <= i /\ (b = 31 \/ i < Pow2(b))

\* the exact value of (float)n * GATE for 0 <= n < 2^24 (where (float)n
\* is n itself): whole + frac / 2^24
GateProduct(n) ==
  LET n1 == n \div LIMB
      n0 == n % LIMB
      g1 == GATE_MANT \div LIMB
      g0 == GATE_MANT % LIMB
      mid == n1 * g0 + n0 * g1
      low == (mid % LIMB) * LIMB + n0 * g0
  IN [ whole |-> n1 * g1 + mid \div LIMB + low \div Pow2(FLOAT_BITS),
       frac |-> low % Pow2(FLOAT_BITS) ]

\* (unsigned long)((float)noteTotal * GATE): the float product is the
\* exact product rounded to FLOAT_BITS significant bits, nearest-even, so
\* it is the next whole number when the fraction is within half a unit in
\* the last place of it; the conversion then cuts the fraction off
NoteOnMs(noteTotal) ==
  LET p == GateProduct(noteTotal)
  IN IF p.whole >= 1
        /\ p.frac >= Pow2(FLOAT_BITS) - Pow2(BitLen(p.whole) - 1)
     THEN p.whole + 1
     ELSE p.whole

\* unsigned long noteOffMs = noteTotal - noteOnMs
NoteOffMs(noteTotal, noteOnMs) == noteTotal - noteOnMs

(* ------------------------------------------------------------------ *)
(* Lyric indexer                                                       *)
(* ------------------------------------------------------------------ *)
\* pgm_read_byte(&lineNoteCounts[songIdx][i]).  Index MAX_LINES lies
\* outside the row: the read yields whatever byte follows it, oob.
ReadCount(counts, i, oob) ==
  IF i < MAX_LINES THEN counts[i + 1] ELSE oob

\* the while loop with "tmp <= 0" for "tmp < 0"
RECURSIVE FindLineOffByOne(_, _, _)
FindLineOffByOne(counts, tmp, lineIndex) ==
  IF ~(lineIndex < MAX_LINES) THEN lineIndex
  ELSE LET c == counts[lineIndex + 1] IN
    IF c = 0 THEN lineIndex
    ELSE IF tmp - c <= 0 THEN lineIndex
    ELSE FindLineOffByOne(counts, tmp - c, lineIndex + 1)

\* the while loop that steps back from the terminator to the line before it
RECURSIVE FindLineStaysOnLast(_, _, _)
FindLineStaysOnLast(counts, tmp, lineIndex) ==
  IF ~(lineIndex < MAX_LINES) THEN lineIndex
  ELSE LET c == counts[lineIndex + 1] IN
    IF c = 0 THEN (IF lineIndex > 0 THEN lineIndex - 1 ELSE lineIndex)
    ELSE IF tmp - c < 0 THEN lineIndex
    ELSE FindLineStaysOnLast(counts, tmp - c, lineIndex + 1)

\* the while loop that starts over at line 0 when it meets the terminator
RECURSIVE FindLineWrapsAtEnd(_, _, _)
FindLineWrapsAtEnd(counts, tmp, lineIndex) ==
  IF ~(lineIndex < MAX_LINES) THEN lineIndex
  ELSE LET c == counts[lineIndex + 1] IN
    IF c = 0 THEN 0
    ELSE IF tmp - c < 0 THEN lineIndex
    ELSE FindLineWrapsAtEnd(counts, tmp - c, lineIndex + 1)

\* the while loop of getLineInfoFromNotesPlayed: the lineIndex it ends at
RECURSIVE FindLine(_, _, _)
FindLine(counts, tmp, lineIndex) ==
  IF ~(lineIndex < MAX_LINES) THEN lineIndex
  ELSE LET c == counts[lineIndex + 1] IN
    IF c = 0 THEN lineIndex
    ELSE IF tmp - c < 0 THEN lineIndex
    ELSE FindLine(counts, tmp - c, lineIndex + 1)

\* the bytes the read of lineNoteCounts[songIdx][lineIndex] can yield when
\* lineIndex = MAX_LINES (any byte); {0} stands for "no such read is made"
OobReads(counts, notesPlayed) ==
  IF FindLine(counts, notesPlayed, 0) < MAX_LINES THEN { 0 }
  ELSE 0 .. BYTE_MOD - 1

\* the for loop of getLineInfoFromNotesPlayed: counts[0] + .. + counts[n-1]
RECURSIVE SumCounts(_, _)
SumCounts(counts, n) ==
  IF n <= 0 THEN 0 ELSE SumCounts(counts, n - 1) + counts[n]

\* getLineInfoFromNotesPlayed without the fallback for a count of 0
getLineInfoNoFallback(counts, notesPlayed, totalNotes, oob) ==
  LET lineIndex == FindLine(counts, notesPlayed, 0)
  IN [ lineIndex |-> lineIndex,
       lineStartNote |-> SumCounts(counts, lineIndex),
       lineNoteCount |-> ReadCount(counts, lineIndex, oob) ]

\* getLineInfoFromNotesPlayed(songIdx, notesPlayed, totalNotes, ...) on the
\* row counts = lineNoteCounts[songIdx]; the three out-parameters as a record
getLineInfoFromNotesPlayed(counts, notesPlayed, totalNotes, oob) ==
  LET lineIndex == FindLine(counts, notesPlayed, 0)
      startNote == SumCounts(counts, lineIndex)
      c0 == ReadCount(counts, lineIndex, oob)
      count == IF c0 = 0
               THEN (IF totalNotes - startNote <= 0 THEN 1
                     ELSE totalNotes - startNote)
               ELSE c0
  IN [ lineIndex |-> lineIndex,
       lineStartNote |-> startNote,
       lineNoteCount |-> count ]

(* ------------------------------------------------------------------ *)
(* Line extractor                                                      *)
(* ------------------------------------------------------------------ *)
\* A RAM buffer: mem is its bytes (mem[i + 1] is out[i]), writes the set
\* of indices i at which out[i] has been assigned.
Store(buf, i, v) ==
  [ mem |-> IF i + 1 \in DOMAIN buf.mem
            THEN [buf.mem EXCEPT ![i + 1] = v] ELSE buf.mem,
    writes |-> buf.writes \cup {i} ]

\* pgm_read_byte(p), p counted from 1; the byte after the text is '\0'
PgmReadByte(text, p) == IF p <= Len(text) THEN text[p] ELSE NUL

\* the loop body with the copy guard "pos < outSize" for "pos < outSize - 1"
ScanStepNoRoomForNul(text, lineIndex, outSize, st) ==
  LET c == PgmReadByte(text, st.p)
      st1 == [st EXCEPT !.p = @ + 1]
  IN IF c = NUL THEN [st1 EXCEPT !.at = "end"]
     ELSE IF c = CR THEN st1
     ELSE IF c = LF
     THEN IF st.curLine = lineIndex
          THEN [st1 EXCEPT !.buf = Store(st.buf, st.pos, NUL), !.at = "found"]
          ELSE [st1 EXCEPT !.curLine = (@ + 1) % BYTE_MOD, !.pos = 0]
     ELSE IF st.curLine = lineIndex /\ st.pos < outSize % BYTE_MOD
     THEN [st1 EXCEPT !.buf = Store(st.buf, st.pos, c), !.pos = @ + 1]
     ELSE st1

\* one iteration of the while (true) loop of getLyricLine.  st.at is
\* "scan" while the loop runs, "end" after its break, "found" after the
\* return true inside it; p counts the bytes read, from 1
ScanStep(text, lineIndex, outSize, st) ==
  LET c == PgmReadByte(text, st.p)
      st1 == [st EXCEPT !.p = @ + 1]
  IN IF c = NUL THEN [st1 EXCEPT !.at = "end"]
     ELSE IF c = CR THEN st1
     ELSE IF c = LF
     THEN IF st.curLine = lineIndex
          THEN [st1 EXCEPT !.buf = Store(st.buf, st.pos, NUL), !.at = "found"]
          ELSE [st1 EXCEPT !.curLine = (@ + 1) % BYTE_MOD, !.pos = 0]
     ELSE IF st.curLine = lineIndex /\ st.pos < (outSize - 1) % BYTE_MOD
     THEN [st1 EXCEPT !.buf = Store(st.buf, st.pos, c), !.pos = @ + 1]
     ELSE st1

\* up to n iterations of the loop, stopping when it is left
RECURSIVE ScanLoop(_, _, _, _, _)
ScanLoop(text, lineIndex, outSize, st, n) ==
  IF n <= 0 \/ st.at # "scan" THEN st
  ELSE IF n = 1 THEN ScanStep(text, lineIndex, outSize, st)
  ELSE LET h == n \div 2 IN
    ScanLoop(text, lineIndex, outSize,
             ScanLoop(text, lineIndex, outSize, st, h), n - h)

\* the code after the loop without the test for a last line that has no '\n'
AfterScanDropsLastLine(lineIndex, st) ==
  IF st.at = "found" THEN [ok |-> TRUE, buf |-> st.buf]
  ELSE [ok |-> FALSE, buf |-> Store(st.buf, 0, NUL)]

\* the code after the loop of getLyricLine
AfterScan(lineIndex, st) ==
  IF st.at = "found" THEN [ok |-> TRUE, buf |-> st.buf]
  ELSE IF st.curLine = lineIndex
  THEN [ok |-> TRUE, buf |-> Store(st.buf, st.pos, NUL)]
  ELSE [ok |-> FALSE, buf |-> Store(st.buf, 0, NUL)]

\* getLyricLine(songIdx, lineIndex, out, outSize) with ptr =
\* getLyricsPtr(songIdx) and buf the buffer out points to.  The loop ends
\* within Len(text) + 1 iterations: the last one reads the closing '\0'
getLyricLine(ptr, lineIndex, buf, outSize) ==
  IF outSize = 0 THEN [ok |-> FALSE, buf |-> buf]
  ELSE LET b0 == Store(buf, 0, NUL) IN
    IF ptr.isNull THEN [ok |-> FALSE, buf |-> b0]
    ELSE AfterScan(lineIndex,
           ScanLoop(ptr.text, lineIndex, outSize,
                    [p |-> 1, curLine |-> 0, pos |-> 0, buf |-> b0, at |-> "scan"],
                    Len(ptr.text) + 1))

\* the C string held in a buffer: its bytes before the first '\0'
RECURSIVE CStrFrom(_, _)
CStrFrom(mem, i) ==
  IF i > Len(mem) \/ mem[i] = NUL THEN << >>
  ELSE << mem[i] >> \o CStrFrom(mem, i + 1)

CStr(mem) == CStrFrom(mem, 1)

(* ------------------------------------------------------------------ *)
(* Output sinks                                                        *)
(* ------------------------------------------------------------------ *)
\* allLEDsOff with the loop bound one short: the last LED is never cleared
allLEDsOffSkipsLast(p) ==
  [i \in 0 .. LED_COUNT - 1 |-> IF i = LED_COUNT - 1 THEN p[i] ELSE FALSE]

\* allLEDsOff that clears nothing
allLEDsOffNoop(p) == p

\* allLEDsOff(): every LED pin LOW
allLEDsOff(p) == [i \in 0 .. LED_COUNT - 1 |-> FALSE]

\* lcdPrintFixed(0, row, text): exactly 16 cells, padded with spaces
lcdPrintFixed(text) ==
  [i \in 1 .. LCD_COLS |-> IF i <= Len(text) THEN text[i] ELSE SPACE]

\* lcd.clear()
BlankRow == [i \in 1 .. LCD_COLS |-> SPACE]

LcdClear == << BlankRow, BlankRow >>

\* the fixed texts printed on the display
MsgNowPlaying == << 78, 111, 119, 32, 80, 108, 97, 121, 105, 110, 103, 58 >>

MsgCountryRoads == << 67, 111, 117, 110, 116, 114, 121, 32, 82, 111, 97, 100, 115 >>

MsgBaaBaaSheep == << 66, 97, 97, 32, 66, 97, 97, 32, 83, 104, 101, 101, 112 >>

MsgItsySpider == << 73, 116, 115, 121, 32, 83, 112, 105, 100, 101, 114 >>

MsgSongComplete == << 83, 111, 110, 103, 32, 67, 111, 109, 112, 108, 101, 116, 101, 33 >>

MsgChooseAnother == << 67, 104, 111, 111, 115, 101, 32, 97, 110, 111, 116, 104, 101, 114, 33 >>

MsgEnter123 == << 69, 110, 116, 101, 114, 32, 49, 44, 32, 50, 32, 111, 114, 32, 51 >>

MsgIntoMonitor == << 105, 110, 116, 111, 32, 109, 111, 110, 105, 116, 111, 114 >>

MsgInvalidInput == << 73, 110, 118, 97, 108, 105, 100, 32, 105, 110, 112, 117, 116, 33 >>

MsgTryAgain == << 84, 114, 121, 32, 97, 103, 97, 105, 110, 33 >>

\* the display after displayMenu()
MenuScreen == << lcdPrintFixed(MsgEnter123), lcdPrintFixed(MsgIntoMonitor) >>

\* the display after the banner of playSong
BannerScreen(songIdx) ==
  << lcdPrintFixed(MsgNowPlaying),
     CASE songIdx = 0 -> lcdPrintFixed(MsgCountryRoads)
       [] songIdx = 1 -> lcdPrintFixed(MsgBaaBaaSheep)
       [] songIdx = 2 -> lcdPrintFixed(MsgItsySpider)
       [] OTHER -> BlankRow >>

\* the display after the end-of-song message
CompleteScreen ==
  << lcdPrintFixed(MsgSongComplete), lcdPrintFixed(MsgChooseAnother) >>

\* the display after the message of handleInvalidInput
InvalidScreen ==
  << lcdPrintFixed(MsgInvalidInput), lcdPrintFixed(MsgTryAgain) >>

(* ------------------------------------------------------------------ *)
(* Test songs: other contents of a catalog row, over the bounds        *)
(* ------------------------------------------------------------------ *)
NOTE_C4 == 262

\* line tables: 0..MaxDefLines positive counts before the terminator, given
\* by their defined part (the row is zero-filled up to MAX_LINES)
RECURSIVE CountSeqs(_)
CountSeqs(k) ==
  IF k = 0 THEN { << >> }
  ELSE { Append(s, c) : s \in CountSeqs(k - 1), c \in 1 .. MaxCount }

TerminatedTables == UNION { CountSeqs(k) : k \in 0 .. MaxDefLines }

\* a row with no terminator: all MAX_LINES entries are positive
FullTables == { [i \in 1 .. MAX_LINES |-> 1] }

TestTables == TerminatedTables \cup FullTables

\* lyric texts
ExampleText == << 65, LF, 66, 66, LF, 67, 67, 67 >>

TestLyrics == { FlashStr(ExampleText), FlashStr(<< 65, 66, 67, 68 >>) }

TestTempos == { -1, 0, 96, 60001 }

TestDurs == { 1, 2 }

TestLedBases == { 0, 3, 7 }

\* a row of len notes at tempo bpm: the notes at the positions in sounding
\* (counted from 1) have pitch NOTE_C4 and the others are rests, every note
\* lasts durU units, note i has light index ledBase + i (as a byte), the
\* line table is counts and the lyric text lyr; padding as in the catalog
TestSong(len, bpm, sounding, durU, ledBase, counts, lyr) ==
  [ row |-> "test", songIdx |-> 0, totalNotes |-> len, bpm |-> bpm,
    sounding |-> sounding, pitch |-> NOTE_C4, durU |-> durU,
    ledBase |-> ledBase, counts |-> counts, lyrics |-> lyr ]

(* ------------------------------------------------------------------ *)
(* State                                                               *)
(* ------------------------------------------------------------------ *)
VARIABLES
  pc,                 \* where loop() / playSong is, or the harness position
  song,               \* the catalog row playSong was called for
  notesPlayed,        \* playSong: int notesPlayed
  lastLineDisplayed,  \* playSong: int lastLineDisplayed
  top, bot,           \* playSong: char top[17], bot[17]
  noteHz,             \* playSong: int noteHz of the current note
  noteTotal,          \* playSong: unsigned long noteTotal of the current note
  noteOnMs,           \* playSong: unsigned long noteOnMs
  noteOffMs,          \* playSong: unsigned long noteOffMs
  pins,               \* light sink: the level of each LED pin
  toneHz,              \* tone sink: the frequency sounding, 0 when stopped
  lcd,                \* display sink: the two rows of 16 cells
  sinkOps,            \* calls made on each sink since playSong was called
  ledCycles,          \* LEDs switched on / switched off since the call
  toneArgs,           \* the frequencies passed to tone() since the call
  shown,              \* the line indices rendered since the call
  sinks0,             \* the sinks when playSong was called
  log,                \* what playSong did since the call, step by step
  serial,             \* the bytes received on Serial and not yet read
  call,               \* harness: the arguments of a function under check
  ret                 \* harness: what the function returned

vars == << pc, song, notesPlayed, lastLineDisplayed, top, bot, noteHz,
           noteTotal, noteOnMs, noteOffMs, pins, toneHz, lcd, sinkOps,
           ledCycles, toneArgs,
           shown, sinks0, log, serial, call, ret >>

locals == << notesPlayed, lastLineDisplayed, top, bot, noteHz, noteTotal,
             noteOnMs, noteOffMs >>

sinks == << pins, toneHz, lcd >>

history == << sinkOps, ledCycles, toneArgs, shown, sinks0, log >>

harness == << call, ret >>

NoSong == [row |-> "none", songIdx |-> -1]

NoCall == [fn |-> "none"]

\* a line buffer before anything is stored in it (its bytes are unspecified;
\* nothing reads them before they are written)
FreshBuf(size) == [i \in 1 .. size |-> 63]

NoOps == [lcd |-> 0, led |-> 0, tone |-> 0]

NoCycles == [on |-> 0, off |-> 0]

\* the log of a playSong call:
\*   renderedAt  the notes at which the lyric rows were rendered
\*   bodyRuns    the values of notesPlayed the loop body ran for, in order
\*   trackReads  the << array, index >> pairs read from the three tracks
\*   ledAddr     the indices i of LED_PINS[i] given to digitalWrite
\*   ledHigh     the << note, i >> pairs of digitalWrite(LED_PINS[i], HIGH)
\*   events      the output calls and waits of the current note, in order
\*   closing     the output calls after the loop, in order
NoLog ==
  [ renderedAt |-> {}, bodyRuns |-> << >>, trackReads |-> {},
    ledAddr |-> {}, ledHigh |-> {}, events |-> << >>, closing |-> << >> ]

\* the indices allLEDsOff gives to LED_PINS
AllLeds == 0 .. LED_COUNT - 1

Lit(p) == { i \in DOMAIN p : p[i] }

\* everything but pc in the state of loop() waiting for input, after
\* setup() or after a song
AtRest ==
  /\ song = NoSong
  /\ notesPlayed = 0
  /\ lastLineDisplayed = NO_LINE
  /\ top = FreshBuf(LINE_BUF_SIZE)
  /\ bot = FreshBuf(LINE_BUF_SIZE)
  /\ noteHz = NOTE_REST
  /\ noteTotal = 0
  /\ noteOnMs = 0
  /\ noteOffMs = 0
  /\ pins = [i \in 0 .. LED_COUNT - 1 |-> FALSE]
  /\ toneHz = 0
  /\ lcd = MenuScreen
  /\ sinkOps = NoOps
  /\ ledCycles = NoCycles
  /\ toneArgs = {}
  /\ shown = {}
  /\ sinks0 = << pins, toneHz, lcd >>
  /\ log = NoLog
  /\ serial = << >>

\* back in loop() waiting for input: the next state is the menu state
ToMenu ==
  /\ pc' = "idle"
  /\ song' = NoSong
  /\ notesPlayed' = 0
  /\ lastLineDisplayed' = NO_LINE
  /\ top' = FreshBuf(LINE_BUF_SIZE)
  /\ bot' = FreshBuf(LINE_BUF_SIZE)
  /\ noteHz' = NOTE_REST
  /\ noteTotal' = 0
  /\ noteOnMs' = 0
  /\ noteOffMs' = 0
  /\ pins' = pins
  /\ toneHz' = toneHz
  /\ lcd' = MenuScreen
  /\ sinkOps' = NoOps
  /\ ledCycles' = NoCycles
  /\ toneArgs' = {}
  /\ shown' = {}
  /\ sinks0' = << pins, toneHz, MenuScreen >>
  /\ log' = NoLog

Init ==
  /\ pc = "idle"
  /\ AtRest
  /\ call = NoCall
  /\ ret = NoCall

(* ------------------------------------------------------------------ *)
(* loop() and playSong                                                 *)
(* ------------------------------------------------------------------ *)
\* the light index used as read
ClampLedNone(li) == li

\* if (li > 4) li = 4
ClampLed(li) == IF li > LED_COUNT - 1 THEN LED_COUNT - 1 ELSE li

\* the number of LEDs that allLEDsOff switches off
SwitchedOff(p) == Cardinality(Lit(p)) - Cardinality(Lit(allLEDsOff(p)))

\* "Play note (or rest)" without the test for a rest
PlayNoteOrRestNoRestCheck(hz, li, p) ==
  [ pins |-> [p EXCEPT ![li] = TRUE], toneHz |-> hz,
    started |-> { hz }, ledWrites |-> 1, addressed |-> { li },
    events |-> << "ledOn", "tone" >> ]

\* "Play note (or rest)" with the tone started before the LED is lit
PlayNoteOrRestToneFirst(hz, li, p) ==
  IF hz # NOTE_REST
  THEN [ pins |-> [p EXCEPT ![li] = TRUE], toneHz |-> hz,
         started |-> { hz }, ledWrites |-> 1, addressed |-> { li },
         events |-> << "tone", "ledOn" >> ]
  ELSE [ pins |-> p, toneHz |-> 0, started |-> {}, ledWrites |-> 0,
         addressed |-> {}, events |-> << "noTone" >> ]

\* "Play note (or rest)": the outputs after the if / else, and what was
\* called: started = the frequencies given to tone(), addressed = the
\* indices given to LED_PINS, events = the calls in order
PlayNoteOrRest(hz, li, p) ==
  IF hz # NOTE_REST
  THEN [ pins |-> [p EXCEPT ![li] = TRUE], toneHz |-> hz,
         started |-> { hz }, ledWrites |-> 1, addressed |-> { li },
         events |-> << "ledOn", "tone" >> ]
  ELSE [ pins |-> p, toneHz |-> 0, started |-> {}, ledWrites |-> 0,
         addressed |-> {}, events |-> << "noTone" >> ]

\* loop(): a valid choice was read; playSong(songIdx) is called, for a row
\* of the catalog or for a test row
PlaySongCall ==
  /\ pc = "idle"
  /\ pc' = "check"
  /\ \/ \E s \in Catalog : song' = s
     \/ \E len \in 0 .. MaxLen :
          \E bpm \in TestTempos, sounding \in SUBSET (1 .. len),
             durU \in TestDurs, ledBase \in TestLedBases,
             counts \in TestTables, lyr \in TestLyrics :
            song' = TestSong(len, bpm, sounding, durU, ledBase, counts, lyr)
  /\ sinks0' = << pins, toneHz, lcd >>
  /\ UNCHANGED << locals, sinks, sinkOps, ledCycles, toneArgs, shown, log,
                  harness, serial >>

\* the safety check placed after the first display call
RejectAfterClear ==
  /\ pc = "check"
  /\ (melodyLenOf(song) <= 0 \/ tempoBPMOf(song) <= 0)
  /\ lcd' = LcdClear
  /\ sinkOps' = [sinkOps EXCEPT !.lcd = @ + 1]
  /\ pc' = "returned"
  /\ UNCHANGED << song, locals, pins, toneHz, ledCycles, toneArgs, shown,
                  sinks0, log, harness, serial >>

\* playSong: the safety check fails, return
Reject ==
  /\ pc = "check"
  /\ (melodyLenOf(song) <= 0 \/ tempoBPMOf(song) <= 0)
  /\ pc' = "returned"
  /\ UNCHANGED << song, locals, sinks, history, harness, serial >>

\* playSong: the safety check passes; the banner is shown
Announce ==
  /\ pc = "check"
  /\ ~(melodyLenOf(song) <= 0 \/ tempoBPMOf(song) <= 0)
  /\ lcd' = BannerScreen(song.songIdx)
  /\ sinkOps' = [sinkOps EXCEPT
                   !.lcd = @ + (IF song.songIdx \in 0 .. 2 THEN 3 ELSE 2)]
  /\ pc' = "announcing"
  /\ UNCHANGED << song, locals, pins, toneHz, ledCycles, toneArgs, shown,
                  sinks0, log, harness, serial >>

\* playSong: the banner pause is over; clean start, locals initialised
CleanStart ==
  /\ pc = "announcing"
  /\ lcd' = LcdClear
  /\ pins' = allLEDsOff(pins)
  /\ toneHz' = 0
  /\ sinkOps' = [sinkOps EXCEPT !.lcd = @ + 1, !.led = @ + LED_COUNT,
                                !.tone = @ + 1]
  /\ ledCycles' = [ledCycles EXCEPT !.off = @ + SwitchedOff(pins)]
  /\ top' = [FreshBuf(LINE_BUF_SIZE) EXCEPT ![1] = NUL]
  /\ bot' = [FreshBuf(LINE_BUF_SIZE) EXCEPT ![1] = NUL]
  /\ notesPlayed' = 0
  /\ lastLineDisplayed' = NO_LINE
  /\ log' = [log EXCEPT !.ledAddr = @ \cup AllLeds]
  /\ pc' = "loop"
  /\ UNCHANGED << song, noteHz, noteTotal, noteOnMs, noteOffMs, toneArgs, shown,
                  sinks0, harness, serial >>

\* the loop test with "<=" for "<"
LoopTestInclusive(played, totalNotes) == played <= totalNotes

\* while (notesPlayed < totalNotes)
LoopTest(played, totalNotes) == played < totalNotes

\* the test that re-renders at every note
LineChangedAlways(lineIndex0, last) == TRUE

\* if (lineIndex0 != lastLineDisplayed)
LineChanged(lineIndex0, last) == lineIndex0 # last

\* playSong: the loop test passes; the lyric line of this note is found
\* and, when it changed, the two rows are rendered
LyricStep ==
  /\ pc = "loop"
  /\ LoopTest(notesPlayed, melodyLenOf(song))
  /\ \E oob \in OobReads(lineNoteCountsOf(song), notesPlayed) :
       LET info == getLineInfoFromNotesPlayed(lineNoteCountsOf(song),
                       notesPlayed, melodyLenOf(song), oob)
           r1 == getLyricLine(lyricsOf(song), info.lineIndex % BYTE_MOD,
                              [mem |-> top, writes |-> {}], LINE_BUF_SIZE)
           r2 == getLyricLine(lyricsOf(song), (info.lineIndex + 1) % BYTE_MOD,
                              [mem |-> bot, writes |-> {}], LINE_BUF_SIZE)
           t1 == IF r1.ok THEN r1.buf.mem ELSE [r1.buf.mem EXCEPT ![1] = NUL]
           b1 == IF r2.ok THEN r2.buf.mem ELSE [r2.buf.mem EXCEPT ![1] = NUL]
       IN IF LineChanged(info.lineIndex, lastLineDisplayed)
          THEN /\ top' = t1
               /\ bot' = b1
               /\ lcd' = << lcdPrintFixed(CStr(t1)), lcdPrintFixed(CStr(b1)) >>
               /\ sinkOps' = [sinkOps EXCEPT !.lcd = @ + 2]
               /\ lastLineDisplayed' = info.lineIndex
               /\ shown' = shown \cup { info.lineIndex }
               /\ log' = [log EXCEPT !.renderedAt = @ \cup { notesPlayed },
                                     !.bodyRuns = Append(@, notesPlayed),
                                     !.events = << >>]
          ELSE /\ log' = [log EXCEPT !.bodyRuns = Append(@, notesPlayed),
                                     !.events = << >>]
               /\ UNCHANGED << top, bot, lcd, sinkOps, lastLineDisplayed,
                               shown >>
  /\ pc' = "read"
  /\ UNCHANGED << song, notesPlayed, noteHz, noteTotal, noteOnMs, noteOffMs,
                  pins, toneHz,
                  ledCycles, toneArgs, sinks0, harness, serial >>

\* playSong: the note and its duration are read, noteTotal computed, and
\* the LEDs cleared for this note
ReadNote ==
  /\ pc = "read"
  /\ noteHz' = melodyNotesAt(song, notesPlayed)
  /\ LET total == NoteTotal(durationUnitsAt(song, notesPlayed),
                            eighthMs(tempoBPMOf(song)))
     IN /\ noteTotal' = total
        /\ noteOnMs' = NoteOnMs(total)
        /\ noteOffMs' = NoteOffMs(total, NoteOnMs(total))
  /\ pins' = allLEDsOff(pins)
  /\ sinkOps' = [sinkOps EXCEPT !.led = @ + LED_COUNT]
  /\ ledCycles' = [ledCycles EXCEPT !.off = @ + SwitchedOff(pins)]
  /\ log' = [log EXCEPT
               !.trackReads = @ \cup { << "melodyNotes", notesPlayed >>,
                                       << "durationUnits", notesPlayed >> },
               !.ledAddr = @ \cup AllLeds,
               !.events = Append(@, "allLEDsOff")]
  /\ pc' = "arm"
  /\ UNCHANGED << song, notesPlayed, lastLineDisplayed, top, bot, toneHz,
                  lcd, toneArgs, shown, sinks0, harness, serial >>

\* playSong: the LED of the note is lit and the tone started, or for a
\* rest the tone is stopped; the on-time wait begins
Arm ==
  /\ pc = "arm"
  /\ LET o == PlayNoteOrRest(noteHz, ClampLed(ledIndexAt(song, notesPlayed)), pins)
     IN /\ pins' = o.pins
        /\ toneHz' = o.toneHz
        /\ toneArgs' = toneArgs \cup o.started
        /\ sinkOps' = [sinkOps EXCEPT !.led = @ + o.ledWrites, !.tone = @ + 1]
        /\ ledCycles' = [ledCycles EXCEPT
                           !.on = @ + Cardinality(Lit(o.pins) \ Lit(pins))]
        /\ log' = [log EXCEPT
                     !.trackReads = @ \cup { << "ledIndex", notesPlayed >> },
                     !.ledAddr = @ \cup o.addressed,
                     !.ledHigh = @ \cup { << notesPlayed, i >> : i \in o.addressed },
                     !.events = @ \o o.events \o << "wait" >>]
  /\ pc' = "holdOn"
  /\ UNCHANGED << song, locals, lcd, shown, sinks0, harness, serial >>

\* playSong: the on-time has passed; tone and LED are released and the
\* off-time wait begins
Release ==
  /\ pc = "holdOn"
  /\ toneHz' = 0
  /\ pins' = allLEDsOff(pins)
  /\ sinkOps' = [sinkOps EXCEPT !.led = @ + LED_COUNT, !.tone = @ + 1]
  /\ ledCycles' = [ledCycles EXCEPT !.off = @ + SwitchedOff(pins)]
  /\ log' = [log EXCEPT !.ledAddr = @ \cup AllLeds,
                        !.events = @ \o << "noTone", "allLEDsOff", "wait" >>]
  /\ pc' = "holdOff"
  /\ UNCHANGED << song, locals, lcd, toneArgs, shown, sinks0, harness, serial >>

\* the note loop that stops between two notes when input is waiting
NextNoteOrCancel ==
  /\ pc = "holdOff"
  /\ IF Len(serial) > 0
     THEN /\ pc' = "returned"
          /\ UNCHANGED << notesPlayed, log >>
     ELSE /\ notesPlayed' = notesPlayed + 1
          /\ log' = [log EXCEPT !.events = Append(@, "next")]
          /\ pc' = "loop"
  /\ UNCHANGED << song, lastLineDisplayed, top, bot, noteHz, noteTotal,
                  noteOnMs, noteOffMs, sinks, sinkOps, ledCycles, toneArgs,
                  shown, sinks0, harness, serial >>

\* playSong: the off-time has passed; next note
NextNote ==
  /\ pc = "holdOff"
  /\ notesPlayed' = notesPlayed + 1
  /\ log' = [log EXCEPT !.events = Append(@, "next")]
  /\ pc' = "loop"
  /\ UNCHANGED << song, lastLineDisplayed, top, bot, noteHz, noteTotal,
                  noteOnMs, noteOffMs, sinks, sinkOps, ledCycles, toneArgs,
                  shown, sinks0, harness, serial >>

\* the end of the song with the message shown before the cleanup
EndSongMessageFirst ==
  /\ pc = "loop"
  /\ ~LoopTest(notesPlayed, melodyLenOf(song))
  /\ toneHz' = 0
  /\ pins' = allLEDsOff(pins)
  /\ lcd' = CompleteScreen
  /\ sinkOps' = [sinkOps EXCEPT !.lcd = @ + 3, !.led = @ + LED_COUNT,
                                !.tone = @ + 1]
  /\ ledCycles' = [ledCycles EXCEPT !.off = @ + SwitchedOff(pins)]
  /\ log' = [log EXCEPT !.ledAddr = @ \cup AllLeds,
                        !.closing = << "lcdClear", "lcdPrint", "lcdPrint",
                                       "noTone", "allLEDsOff", "wait" >>]
  /\ pc' = "draining"
  /\ UNCHANGED << song, locals, toneArgs, shown, sinks0, harness, serial >>

\* playSong: the loop test fails; end-of-song cleanup and message
EndSong ==
  /\ pc = "loop"
  /\ ~LoopTest(notesPlayed, melodyLenOf(song))
  /\ toneHz' = 0
  /\ pins' = allLEDsOff(pins)
  /\ lcd' = CompleteScreen
  /\ sinkOps' = [sinkOps EXCEPT !.lcd = @ + 3, !.led = @ + LED_COUNT,
                                !.tone = @ + 1]
  /\ ledCycles' = [ledCycles EXCEPT !.off = @ + SwitchedOff(pins)]
  /\ log' = [log EXCEPT !.ledAddr = @ \cup AllLeds,
                        !.closing = << "noTone", "allLEDsOff", "lcdClear",
                                       "lcdPrint", "lcdPrint", "wait" >>]
  /\ pc' = "draining"
  /\ UNCHANGED << song, locals, toneArgs, shown, sinks0, harness, serial >>

\* playSong: the closing pause is over; playSong returns
Return ==
  /\ pc = "draining"
  /\ pc' = "returned"
  /\ UNCHANGED << song, locals, sinks, history, harness, serial >>

\* loop(): displayMenu() after playSong; loop() waits for input again
DisplayMenu ==
  /\ pc = "returned"
  /\ ToMenu
  /\ UNCHANGED << harness, serial >>

\* loop(): an invalid choice was read; handleInvalidInput shows its message
InvalidInput ==
  /\ pc = "idle"
  /\ lcd' = InvalidScreen
  /\ pc' = "invalid"
  /\ UNCHANGED << song, locals, pins, toneHz, history, harness, serial >>

\* handleInvalidInput: the pause is over; displayMenu()
InvalidDone ==
  /\ pc = "invalid"
  /\ ToMenu
  /\ UNCHANGED << harness, serial >>

Next ==
  \/ PlaySongCall
  \/ Reject
  \/ Announce
  \/ CleanStart
  \/ LyricStep
  \/ ReadNote
  \/ Arm
  \/ Release
  \/ NextNote
  \/ EndSong
  \/ Return
  \/ DisplayMenu
  \/ InvalidInput
  \/ InvalidDone

Spec == Init /\ [][Next]_vars

\* the places of the program other than loop() waiting for input
BusyPlaces ==
  { "check", "announcing", "loop", "read", "arm", "holdOn", "holdOff",
    "draining", "returned", "invalid" }

\* the program moves on from such a place.  At each of them exactly one
\* step of Next is enabled and every step changes pc; the program is
\* sequential and its waits are busy loops on millis(), which advances, so
\* the step that is due is taken: weak fairness of the step
Advance ==
  /\ pc \in BusyPlaces
  /\ pc' \in BusyPlaces \cup { "idle" }
  /\ pc' # pc

SpecLive == Spec /\ WF_pc(Advance)

(* ------------------------------------------------------------------ *)
(* loop() on the serial input: the program as a whole                  *)
(* ------------------------------------------------------------------ *)
TAB == 9

DIGIT_0 == 48

DIGIT_1 == 49

DIGIT_3 == 51

\* the bytes that arrive: '1', '2', '3', 'x' and newline
SerialBytes == { 49, 50, 51, 120, LF }

\* at most this many bytes wait in the receive buffer
MaxPending == 1

\* readChoiceChar: c == '\n' || c == '\r' || c == ' ' || c == '\t'
IsBlank(c) == c \in { LF, CR, SPACE, TAB }

\* readChoiceChar: the bytes left when the leading blanks have been read
RECURSIVE SkipBlanks(_)
SkipBlanks(buf) ==
  IF buf # << >> /\ IsBlank(Head(buf)) THEN SkipBlanks(Tail(buf)) ELSE buf

\* readChoiceChar() on the receive buffer buf: the character returned (0
\* when only blanks were there) and the bytes left in the buffer.  After a
\* character is found, every byte available in the next 25 ms is read (the
\* break at a newline leaves only the inner loop), so none is left.
readChoiceChar(buf) ==
  IF SkipBlanks(buf) = << >>
  THEN [ choice |-> 0, left |-> << >> ]
  ELSE [ choice |-> Head(SkipBlanks(buf)), left |-> << >> ]

\* choice >= '1' && choice <= '3'
ValidChoice(choice) == choice >= DIGIT_1 /\ choice <= DIGIT_3

\* the receive buffer takes one more byte, whatever the program is doing
SerialArrives ==
  /\ Len(serial) < MaxPending
  /\ \E b \in SerialBytes : serial' = Append(serial, b)
  /\ UNCHANGED << pc, song, locals, sinks, history, harness >>

\* loop(): input is available and the choice read is '1', '2' or '3':
\* playSong(songIdx) is called
LoopSelect ==
  /\ pc = "idle"
  /\ Len(serial) > 0
  /\ ValidChoice(readChoiceChar(serial).choice)
  /\ LET songNum == (readChoiceChar(serial).choice - DIGIT_0) % BYTE_MOD
         songIdx == (songNum - 1) % BYTE_MOD
     IN song' = CatalogSong(songIdx)
  /\ serial' = readChoiceChar(serial).left
  /\ sinks0' = << pins, toneHz, lcd >>
  /\ pc' = "check"
  /\ UNCHANGED << locals, sinks, sinkOps, ledCycles, toneArgs, shown, log,
                  harness >>

\* loop(): input is available and the choice read is anything else (0 when
\* only blanks were read): handleInvalidInput shows its message
LoopInvalid ==
  /\ pc = "idle"
  /\ Len(serial) > 0
  /\ ~ValidChoice(readChoiceChar(serial).choice)
  /\ serial' = readChoiceChar(serial).left
  /\ lcd' = InvalidScreen
  /\ pc' = "invalid"
  /\ UNCHANGED << song, locals, pins, toneHz, history, harness >>

\* every song of the catalog passes the safety check, so Reject has no
\* part in the program as a whole
NextProgram ==
  \/ SerialArrives
  \/ LoopSelect
  \/ LoopInvalid
  \/ Announce
  \/ CleanStart
  \/ LyricStep
  \/ ReadNote
  \/ Arm
  \/ Release
  \/ NextNote
  \/ EndSong
  \/ Return
  \/ DisplayMenu
  \/ InvalidDone

SpecProgram == Init /\ [][NextProgram]_vars

(* ------------------------------------------------------------------ *)
(* The lyric indexer on its own: any line table, any notesPlayed       *)
(* ------------------------------------------------------------------ *)
LocateTables ==
  { PadTo(c, MAX_LINES, 0) : c \in TestTables }
    \cup { lineNoteCounts0, lineNoteCounts1, lineNoteCounts2 }

LocateTotals == { 0, MaxLen, MAX_LINES + 1, 42, 48, 65 }

LocateCallOf(c, n, t) ==
  [fn |-> "locate", counts |-> c, notesPlayed |-> n, totalNotes |-> t]

InitLocate ==
  /\ pc = "locate"
  /\ AtRest
  \* notesPlayed runs from 0 to MaxBeyond past the sum of the whole table
  /\ \E c \in LocateTables :
       \E n \in 0 .. SumCounts(c, MAX_LINES) + MaxBeyond, t \in LocateTotals :
         call = LocateCallOf(c, n, t)
  /\ ret = NoCall

\* getLineInfoFromNotesPlayed is called and returns
LocateCall ==
  /\ pc = "locate"
  /\ \E oob \in OobReads(call.counts, call.notesPlayed) :
       ret' = getLineInfoFromNotesPlayed(call.counts, call.notesPlayed,
                                         call.totalNotes, oob)
  /\ pc' = "located"
  /\ UNCHANGED << song, locals, sinks, history, call, serial >>

SpecLocate == InitLocate /\ [][LocateCall]_vars

\* the line indexer on its own together with whole playbacks, which call it
\* once a note
InitLines == Init \/ InitLocate

NextLines == Next \/ LocateCall

SpecLines == InitLines /\ [][NextLines]_vars

(* ------------------------------------------------------------------ *)
(* The line extractor on its own: any text, line index and buffer size *)
(* ------------------------------------------------------------------ *)
TextBytes == { 65, 66, LF, CR }

RECURSIVE TextsOfLen(_)
TextsOfLen(n) ==
  IF n = 0 THEN { << >> }
  ELSE { Append(t, b) : t \in TextsOfLen(n - 1), b \in TextBytes }

TestTexts == UNION { TextsOfLen(n) : n \in 0 .. MaxTextLen } \cup { ExampleText }

ExtractCallOf(ptr, lineIndex, outSize) ==
  [ fn |-> "extract", ptr |-> ptr, lineIndex |-> lineIndex,
    outSize |-> outSize,
    buf |-> [mem |-> FreshBuf(outSize), writes |-> {}] ]

InitExtract ==
  /\ pc = "extract"
  /\ AtRest
  /\ \/ \E ptr \in { FlashStr(t) : t \in TestTexts } \cup { NullPtr },
            i \in 0 .. MaxLineIdx, n \in 0 .. MaxOutSize :
          call = ExtractCallOf(ptr, i, n)
     \/ \E k \in 0 .. SONG_COUNT, i \in 0 .. MAX_LINES :
          call = ExtractCallOf(getLyricsPtr(k), i, LINE_BUF_SIZE)
  /\ ret = NoCall

\* getLyricLine is called and returns
ExtractCall ==
  /\ pc = "extract"
  /\ ret' = getLyricLine(call.ptr, call.lineIndex, call.buf, call.outSize)
  /\ pc' = "extracted"
  /\ UNCHANGED << song, locals, sinks, history, call, serial >>

SpecExtract == InitExtract /\ [][ExtractCall]_vars

(* ------------------------------------------------------------------ *)
(* The note timing on its own: any tempo and duration                  *)
(* ------------------------------------------------------------------ *)
\* tempos 1 .. MaxTempo
MaxTempo == 120

\* and the tempos around the one whose eighth note is 0 ms
TimingTempos == 1 .. MaxTempo \cup { 7500, 30000, 59999, 60000, 60001 }

\* duration units: a byte
TimingDurs == { 0, 1, 2, 3, 8, 100, 109, 171, 255 }

TimingCallOf(bpm, durU) == [fn |-> "timing", bpm |-> bpm, durU |-> durU]

InitTiming ==
  /\ pc = "timing"
  /\ AtRest
  /\ \E bpm \in TimingTempos, durU \in TimingDurs :
       call = TimingCallOf(bpm, durU)
  /\ ret = NoCall

\* playSong's timing of one note: unitMs, noteTotal, noteOnMs, noteOffMs
TimingCall ==
  /\ pc = "timing"
  /\ LET unitMs == eighthMs(call.bpm)
         total == NoteTotal(call.durU, unitMs)
         on == NoteOnMs(total)
     IN ret' = [ unitMs |-> unitMs, noteTotal |-> total, noteOnMs |-> on,
                 noteOffMs |-> NoteOffMs(total, on) ]
  /\ pc' = "timed"
  /\ UNCHANGED << song, locals, sinks, history, call, serial >>

SpecTiming == InitTiming /\ [][TimingCall]_vars

(* ------------------------------------------------------------------ *)
(* Notions the properties are stated with                              *)
(* ------------------------------------------------------------------ *)
Rejected(s) == melodyLenOf(s) <= 0 \/ tempoBPMOf(s) <= 0

Playable(s) == melodyLenOf(s) >= 1 /\ tempoBPMOf(s) >= 1

InPlaySong ==
  pc \in { "check", "announcing", "loop", "read", "arm", "holdOn", "holdOff",
           "draining", "returned" }

\* playSong has finished the note loop and its cleanup
Completed == pc \in { "draining", "returned" } /\ Playable(song)

\* the notes among the first trueLength that are not rests
NonRestNotes(s) ==
  { i \in 0 .. melodyLenOf(s) - 1 : melodyNotesAt(s, i) # NOTE_REST }

RECURSIVE SumSeq(_)
SumSeq(s) == IF s = << >> THEN 0 ELSE Head(s) + SumSeq(Tail(s))

\* the number of defined lines of a line table: the index of its zero
\* terminator, or MAX_LINES when it has none
DefinedLines(counts) ==
  IF \E i \in 1 .. MAX_LINES : counts[i] = 0
  THEN (CHOOSE i \in 1 .. MAX_LINES :
          counts[i] = 0 /\ \A j \in 1 .. i - 1 : counts[j] # 0) - 1
  ELSE MAX_LINES

Terminated(counts) == DefinedLines(counts) < MAX_LINES

\* the sum of the first n entries of a line table
SumOfFirst(counts, n) == SumSeq(SubSeq(counts, 1, n))

\* the sum of the entries before the terminator
SumDefined(counts) == SumOfFirst(counts, DefinedLines(counts))

\* the lines of a lyric text: the pieces between its newlines, the last one
\* being what follows the last newline; carriage returns belong to no line
NotCR(b) == b # CR

Newlines(t) == { i \in 1 .. Len(t) : t[i] = LF }

\* the position of newline number k (from 1) of t
NewlineAt(t, k) ==
  CHOOSE p \in Newlines(t) : Cardinality({ q \in Newlines(t) : q < p }) = k - 1

LinesOfText(t) ==
  LET count == Cardinality(Newlines(t)) + 1
  IN  [ j \in 1 .. count |->
          SubSeq(t,
                 IF j = 1 THEN 1 ELSE NewlineAt(t, j - 1) + 1,
                 IF j = count THEN Len(t) ELSE NewlineAt(t, j) - 1) ]

LyricLines(ptr) ==
  IF ptr.isNull THEN << >> ELSE LinesOfText(SelectSeq(ptr.text, NotCR))

FirstChars(line, n) == SubSeq(line, 1, IF Len(line) < n THEN Len(line) ELSE n)

\* a row of the display showing lyric line j, blank when there is none
LyricRow(ptr, j) ==
  LET lines == LyricLines(ptr)
  IN  IF j + 1 \in DOMAIN lines
      THEN lcdPrintFixed(FirstChars(lines[j + 1], LCD_COLS))
      ELSE BlankRow

(* ------------------------------------------------------------------ *)
(* Properties of playSong                                              *)
(* ------------------------------------------------------------------ *)
\* C1: a song with trueLength <= 0 or tempo <= 0 never gets past the safety
\* check of playSong, and from the call to the return no sink is called
\* and the sinks are as they were at the call.
C1_RejectedSongTouchesNoSink ==
  (InPlaySong /\ Rejected(song)) =>
     /\ pc \in { "check", "returned" }
     /\ sinkOps = NoOps
     /\ ledCycles = NoCycles
     /\ toneArgs = {}
     /\ << pins, toneHz, lcd >> = sinks0

C1_Witness ==
  /\ pc = "returned"
  /\ song.row = "test"
  /\ song.bpm = 0
  /\ song.totalNotes = MaxLen
  /\ sinkOps = NoOps

\* C2: when a playable song has been played, each non-rest note among its
\* first trueLength notes has switched one light on and one light off and
\* nothing else has, every light is off and the tone is stopped.
C2_OneCyclePerNote ==
  Completed =>
     /\ ledCycles.on = Cardinality(NonRestNotes(song))
     /\ ledCycles.off = Cardinality(NonRestNotes(song))
     /\ Lit(pins) = {}
     /\ toneHz = 0

C2_Witness ==
  /\ pc = "returned"
  /\ song.row = "test"
  /\ song.totalNotes = 3
  /\ song.sounding = { 1, 2, 3 }
  /\ ledCycles = [on |-> 3, off |-> 3]
  /\ Lit(pins) = {}
  /\ toneHz = 0

\* C3: at most one light is on in every state, and no light is on just
\* before the engine sets one.
C3_AtMostOneLight ==
  /\ Cardinality(Lit(pins)) <= 1
  /\ pc = "arm" => Lit(pins) = {}

C3_Witness ==
  /\ pc = "holdOn"
  /\ notesPlayed >= 1
  /\ Cardinality(Lit(pins)) = 1
  /\ ledCycles.on >= 2

\* C4: tone() is never given the silence sentinel, and while a rest is
\* held no tone sounds and no light is lit.
C4_RestNeverStartsTone ==
  /\ NOTE_REST \notin toneArgs
  /\ (pc = "holdOn" /\ noteHz = NOTE_REST) => (toneHz = 0 /\ Lit(pins) = {})

C4_Witness ==
  /\ pc = "holdOn"
  /\ noteHz = NOTE_REST
  /\ melodyNotesAt(song, notesPlayed) = NOTE_REST
  /\ toneHz = 0
  /\ Lit(pins) = {}
  /\ sinkOps.tone >= 2

\* C7: when the counts before the terminator sum to exactly trueLength,
\* a whole playback has located every defined line index at some note.
C7_EveryLineReached ==
  (Completed /\ SumDefined(lineNoteCountsOf(song)) = melodyLenOf(song)) =>
     (0 .. DefinedLines(lineNoteCountsOf(song)) - 1) \subseteq shown

C7_Witness ==
  /\ pc = "returned"
  /\ song.row = "test"
  /\ song.counts = << 1, 2 >>
  /\ song.totalNotes = 3
  /\ shown = { 0, 1 }

\* the notes of C8: the table has a terminator, its counts sum to less than
\* trueLength, and the current note, whose line has been looked up, is at
\* or past that sum
PastLastLine ==
  /\ pc \in { "read", "arm", "holdOn", "holdOff" }
  /\ Terminated(lineNoteCountsOf(song))
  /\ SumDefined(lineNoteCountsOf(song)) < melodyLenOf(song)
  /\ notesPlayed >= SumDefined(lineNoteCountsOf(song))

\* C8 as stated: the notes past the sum of the counts are on the last
\* defined line, the one just before the terminator.
C8_Original_RemainderOnLastLine ==
  (PastLastLine /\ DefinedLines(lineNoteCountsOf(song)) >= 1) =>
     lastLineDisplayed = DefinedLines(lineNoteCountsOf(song)) - 1

\* C8 amended: the notes past the sum of the counts are on the line index
\* of the terminator itself, and the display shows the lyric lines of that
\* index and the next, blank where the text has no such line.
C8_RemainderOnTerminatorLine ==
  PastLastLine =>
     /\ lastLineDisplayed = DefinedLines(lineNoteCountsOf(song))
     /\ lcd = << LyricRow(lyricsOf(song), lastLineDisplayed),
                 LyricRow(lyricsOf(song), lastLineDisplayed + 1) >>

C8_Witness ==
  /\ pc = "holdOn"
  /\ song = CatalogSong(2)
  /\ notesPlayed = 47
  /\ lastLineDisplayed = 16
  /\ lcd = LcdClear

(* ------------------------------------------------------------------ *)
(* Properties of getLineInfoFromNotesPlayed (under SpecLocate)         *)
(* ------------------------------------------------------------------ *)
\* the walk stops at index i: the count there is the terminator, or the
\* running value notesPlayed - (count[0] + .. + count[i]) is negative
StopsAt(counts, n, i) ==
  counts[i + 1] = 0 \/ n - SumOfFirst(counts, i + 1) < 0

StopIndices(counts, n) ==
  { i \in 0 .. MAX_LINES - 1 : StopsAt(counts, n, i) }

Least(S) == CHOOSE x \in S : \A y \in S : x <= y

\* C5: lineIndex is the first index at which the running value is negative
\* or the count is the terminator (MAX_LINES when the table has no such
\* index), and lineStartNote is the sum of the counts before lineIndex, for
\* every notesPlayed >= 0, also at or past trueLength.
C5_LocateLineAndStart ==
  pc = "located" =>
     /\ StopIndices(call.counts, call.notesPlayed) # {} =>
          ret.lineIndex = Least(StopIndices(call.counts, call.notesPlayed))
     /\ StopIndices(call.counts, call.notesPlayed) = {} =>
          ret.lineIndex = MAX_LINES
     /\ ret.lineStartNote = SumOfFirst(call.counts, ret.lineIndex)

C5_Witness ==
  /\ pc = "located"
  /\ call.counts = lineNoteCounts2
  /\ call.totalNotes = 48
  /\ call.notesPlayed = 49
  /\ ret.lineIndex = 16
  /\ ret.lineStartNote = 47

\* the fallback span
FallbackSpan(totalNotes, startNote) ==
  IF totalNotes - startNote >= 1 THEN totalNotes - startNote ELSE 1

\* C6 as stated: the span is at least 1; it is the count at lineIndex when
\* that is a positive entry of the table, and the fallback
\* max(1, trueLength - lineStartNote) when that count is the terminator or
\* lineIndex = MAX_LINES lies outside the table.
C6_SpanAsStated ==
  pc = "located" =>
     /\ ret.lineNoteCount >= 1
     /\ (ret.lineIndex < MAX_LINES /\ call.counts[ret.lineIndex + 1] > 0) =>
          ret.lineNoteCount = call.counts[ret.lineIndex + 1]
     /\ (ret.lineIndex >= MAX_LINES \/ call.counts[ret.lineIndex + 1] = 0) =>
          ret.lineNoteCount = FallbackSpan(call.totalNotes, ret.lineStartNote)

(* ------------------------------------------------------------------ *)
(* Properties of getLyricLine (under SpecExtract)                      *)
(* ------------------------------------------------------------------ *)
\* the requested line of the text, when the text has it
HasLine == call.lineIndex < Len(LyricLines(call.ptr))

TheLine == LyricLines(call.ptr)[call.lineIndex + 1]

Returned(okv, str) == ret.ok = okv /\ CStr(ret.buf.mem) = str

C10_NoWriteOutsideBuffer ==
  pc = "extracted" =>
     /\ ret.buf.writes \subseteq 0 .. call.outSize - 1
     /\ call.outSize = 0 => ret.buf = call.buf
     /\ ret.ok =>
          /\ CStr(ret.buf.mem) = FirstChars(TheLine, call.outSize - 1)
          /\ Len(CStr(ret.buf.mem)) < call.outSize
          /\ ret.buf.mem[Len(CStr(ret.buf.mem)) + 1] = NUL

C10_Witness ==
  /\ pc = "extracted"
  /\ call.ptr = FlashStr(ExampleText)
  /\ call.lineIndex = 2
  /\ call.outSize = 3
  /\ Returned(TRUE, << 67, 67 >>)
  /\ ret.buf.writes = { 0, 1, 2 }

(* ------------------------------------------------------------------ *)
(* Properties of the note loop of playSong                             *)
(* ------------------------------------------------------------------ *)
\* the line index the lyric indexer gives note n of song s
LineOfNote(s, n) ==
  LET stops == StopIndices(lineNoteCountsOf(s), n)
  IN  IF stops = {} THEN MAX_LINES ELSE Least(stops)

\* the notes at which the line index is not that of the note before
LineChanges(s) ==
  { n \in 1 .. melodyLenOf(s) - 1 : LineOfNote(s, n) # LineOfNote(s, n - 1) }

\* the lyric line of the current note has been looked up
LineLookedUp == pc \in { "read", "arm", "holdOn", "holdOff" }

\* the step of the loop that looks the lyric line up
LookUp == pc = "loop" /\ pc' = "read"

\* the lookup step renders the rows for the current note
Renders == LookUp /\ notesPlayed \in log'.renderedAt

\* C11: the rows are rendered at a note exactly when its line index is not
\* lastLineDisplayed; note 0 is always rendered; over a whole song the
\* renders are one more than the notes whose line index is not that of
\* the note before; and what is rendered is line lineIndex over line
\* lineIndex + 1 (as much as a row holds), a row blank where the text has
\* no such line, and it stays on the display while the note lasts.
C11_RenderOnLineChange ==
  /\ [][ LookUp =>
           LET line == LineOfNote(song, notesPlayed)
           IN  /\ Renders <=> (line # lastLineDisplayed)
               /\ lastLineDisplayed' = line
               /\ Renders =>
                     lcd' = << LyricRow(lyricsOf(song), line),
                               LyricRow(lyricsOf(song), line + 1) >>
               /\ ~Renders => lcd' = lcd ]_vars
  /\ [][ LineLookedUp =>
           /\ lcd' = lcd
           /\ lastLineDisplayed' = lastLineDisplayed
           /\ LineLookedUp' => notesPlayed' = notesPlayed ]_vars
  /\ [] ( LineLookedUp => 0 \in log.renderedAt )
  /\ [] ( Completed =>
            Cardinality(log.renderedAt) = Cardinality(LineChanges(song)) + 1 )

C11_Witness ==
  /\ pc = "returned"
  /\ song = CatalogSong(0)
  /\ Cardinality(log.renderedAt) = 16
  /\ 0 \in log.renderedAt
  /\ 1 \notin log.renderedAt

(* ------------------------------------------------------------------ *)
(* Properties of the note timing (under SpecTiming)                    *)
(* ------------------------------------------------------------------ *)
\* q is the whole part of a / b, for a >= 0 and b >= 1
IsFloorOf(q, a, b) == q * b <= a /\ a < (q + 1) * b

\* C12: the unit is the whole part of half the whole part of
\* 60000 / tempo, for every tempo >= 1; at tempo 96 it is 312 and a note
\* of 2 units then lasts 624.
C12_UnitIsHalfBeatFloored ==
  pc = "timed" =>
     /\ \E q \in { 2 * ret.unitMs, 2 * ret.unitMs + 1 } :
          IsFloorOf(q, 60000, call.bpm)
     /\ call.bpm = 96 => ret.unitMs = 312
     /\ (call.bpm = 96 /\ call.durU = 2) => ret.noteTotal = 624

C12_Witness ==
  /\ pc = "timed"
  /\ call.bpm = 96
  /\ call.durU = 2
  /\ ret.unitMs = 312
  /\ ret.noteTotal = 624

\* the whole part of noteTotal * 0.93
GateFloor(n) == (93 * n) \div 100

\* C13 as stated: onTime is the whole part of noteTotal * 0.93, offTime
\* is the rest of noteTotal, so 0 <= onTime <= noteTotal and the two add up
\* to noteTotal; noteTotal 624 gives 580 and 44.
C13_GateSplit ==
  pc = "timed" =>
     /\ ret.noteOnMs = GateFloor(ret.noteTotal)
     /\ ret.noteOffMs = ret.noteTotal - ret.noteOnMs
     /\ 0 <= ret.noteOnMs
     /\ ret.noteOnMs <= ret.noteTotal
     /\ ret.noteOnMs + ret.noteOffMs = ret.noteTotal
     /\ ret.noteTotal = 624 => (ret.noteOnMs = 580 /\ ret.noteOffMs = 44)

\* what of C13 the code does satisfy: the split is exact and within
\* bounds, the example is as stated, and onTime is the stated whole part or
\* one more
GateSplitWithinOne ==
  pc = "timed" =>
     /\ ret.noteOnMs \in { GateFloor(ret.noteTotal), GateFloor(ret.noteTotal) + 1 }
     /\ ret.noteOffMs = ret.noteTotal - ret.noteOnMs
     /\ 0 <= ret.noteOnMs
     /\ ret.noteOnMs <= ret.noteTotal
     /\ ret.noteTotal = 624 => (ret.noteOnMs = 580 /\ ret.noteOffMs = 44)

(* ------------------------------------------------------------------ *)
(* Properties of the lights and of the track reads (under Spec)        *)
(* ------------------------------------------------------------------ *)
Smaller(a, b) == IF a <= b THEN a ELSE b

\* the indicator the light track names for note n, K = LED_COUNT
IndicatorOf(s, n) == Smaller(ledIndexAt(s, n), LED_COUNT - 1)

\* C14: a non-rest note lights the indicator min(lightTrack[n], K - 1) and
\* no other, so a light-track value of 5 or more lights indicator 4; and
\* no index outside 0 .. 4 is ever given to LED_PINS.
C14_LightIndexClamped ==
  /\ log.ledAddr \subseteq 0 .. LED_COUNT - 1
  /\ (pc = "holdOn" /\ noteHz # NOTE_REST) =>
        Lit(pins) = { IndicatorOf(song, notesPlayed) }
  /\ Completed =>
        log.ledHigh = { << n, IndicatorOf(song, n) >> : n \in NonRestNotes(song) }

C14_Witness ==
  /\ pc = "holdOn"
  /\ noteHz # NOTE_REST
  /\ ledIndexAt(song, notesPlayed) = 7
  /\ Lit(pins) = { 4 }
  /\ << notesPlayed, 4 >> \in log.ledHigh

\* the notes 0, 1, .., k - 1 in increasing order
FirstNotes(k) == [i \in 1 .. k |-> i - 1]

Tracks == { "melodyNotes", "durationUnits", "ledIndex" }

\* C15: the loop body runs for notesPlayed = 0, 1, .. in increasing order,
\* each once, and for exactly the first trueLength values when the song has
\* been played; no track is read at an index >= trueLength, and each of
\* the three tracks has then been read at every index below trueLength.
C15_EachNoteOnceInOrder ==
  (InPlaySong /\ Playable(song)) =>
     /\ Len(log.bodyRuns) <= melodyLenOf(song)
     /\ log.bodyRuns = FirstNotes(Len(log.bodyRuns))
     /\ \A r \in log.trackReads : r[1] \in Tracks /\ r[2] \in 0 .. melodyLenOf(song) - 1
     /\ Completed =>
          /\ log.bodyRuns = FirstNotes(melodyLenOf(song))
          /\ log.trackReads = Tracks \X (0 .. melodyLenOf(song) - 1)

C15_Witness ==
  /\ pc = "returned"
  /\ song = CatalogSong(2)
  /\ Len(log.bodyRuns) = 48
  /\ log.bodyRuns[48] = 47
  /\ << "melodyNotes", 47 >> \in log.trackReads
  /\ << "melodyNotes", 48 >> \notin log.trackReads

(* ------------------------------------------------------------------ *)
(* Properties of the compiled-in catalog                               *)
(* ------------------------------------------------------------------ *)
\* playSong is playing a song of the compiled-in catalog
PlayingCatalogSong == InPlaySong /\ song \in Catalog

\* C16 as stated: the counts of a catalog song before the terminator sum
\* to at most its trueLength.
C16_LineCountsWithinLength ==
  PlayingCatalogSong =>
     SumDefined(lineNoteCountsOf(song)) <= melodyLenOf(song)

\* C17 as stated: each of the first trueLength durations of a catalog song
\* is positive, so duration * unitDuration(tempo) is positive for every
\* note played, with no use of the clamp of a zero noteTotal.
C17_DurationsPositive ==
  PlayingCatalogSong =>
     \A i \in 0 .. melodyLenOf(song) - 1 :
        /\ durationUnitsAt(song, i) >= 1
        /\ durationUnitsAt(song, i) * eighthMs(tempoBPMOf(song)) > 0

(* ------------------------------------------------------------------ *)
(* Properties of the program as a whole (under SpecProgram)            *)
(* ------------------------------------------------------------------ *)
\* a step that takes bytes out of the receive buffer
SerialRead ==
  /\ serial' # serial
  /\ \A b \in SerialBytes : serial' # Append(serial, b)

\* playSong has run the whole song and its cleanup
PlayedToTheEnd ==
  /\ log.bodyRuns = FirstNotes(melodyLenOf(song))
  /\ notesPlayed = melodyLenOf(song)
  /\ toneHz = 0
  /\ Lit(pins) = {}
  /\ lcd = CompleteScreen

\* C18: from the call of playSong to its return the receive buffer is
\* never read, a byte that arrives changes nothing but the buffer, and the
\* song is not replaced; playSong returns only when all trueLength notes
\* have been played and the cleanup is done, and input is read only by
\* loop() when no song is playing.
C18_NoCancellation ==
  /\ [][ SerialRead => pc = "idle" ]_vars
  /\ [][ (InPlaySong /\ serial' # serial) =>
            UNCHANGED << pc, song, locals, sinks, history >> ]_vars
  /\ [][ (InPlaySong /\ song' # song) => (pc = "returned" /\ pc' = "idle") ]_vars
  /\ [] ( pc = "returned" => PlayedToTheEnd )

C18_Witness ==
  /\ pc = "returned"
  /\ song = CatalogSong(1)
  /\ serial = << 49 >>
  /\ Len(log.bodyRuns) = 42
  /\ lcd = CompleteScreen

(* ------------------------------------------------------------------ *)
(* Properties of the order of the outputs (under Spec)                 *)
(* ------------------------------------------------------------------ *)
\* the output calls and waits of note n of song s, in the stated order
ArmingEvents(s, n) ==
  IF melodyNotesAt(s, n) # NOTE_REST THEN << "ledOn", "tone" >>
  ELSE << "noTone" >>

NoteEvents(s, n) ==
  << "allLEDsOff" >> \o ArmingEvents(s, n)
     \o << "wait", "noTone", "allLEDsOff", "wait", "next" >>

\* how many of them are done at each place of the loop body
EventsDoneAt(s, n, where) ==
  CASE where = "read" -> 0
    [] where = "arm" -> 1
    [] where = "holdOn" -> Len(ArmingEvents(s, n)) + 2
    [] where = "holdOff" -> Len(ArmingEvents(s, n)) + 5
    [] OTHER -> Len(NoteEvents(s, n))

\* C19: the outputs of a note come in the order: all lights cleared; one
\* light lit and then the tone started, or for a rest the tone stopped;
\* the wait for onTime; the tone stopped and all lights cleared, after a
\* rest as after a tone; the wait for offTime; notesPlayed advanced.  The
\* program waits at those two places only, and never between the light
\* and the tone.
C19_OutputOrderWithinNote ==
  /\ LineLookedUp =>
        /\ log.events = SubSeq(NoteEvents(song, notesPlayed), 1,
                               EventsDoneAt(song, notesPlayed, pc))
        /\ pc = "arm" => Lit(pins) = {}
        /\ pc = "holdOff" => (toneHz = 0 /\ Lit(pins) = {})
        /\ (pc \in { "holdOn", "holdOff" })
              <=> (log.events # << >> /\ log.events[Len(log.events)] = "wait")
  /\ (pc \in { "loop", "draining", "returned" } /\ Playable(song)
        /\ notesPlayed >= 1) =>
        log.events = NoteEvents(song, notesPlayed - 1)

C19_Witness ==
  /\ pc = "loop"
  /\ notesPlayed = 2
  /\ melodyNotesAt(song, 1) = NOTE_REST
  /\ log.events = << "allLEDsOff", "noTone", "wait", "noTone", "allLEDsOff",
                     "wait", "next" >>

(* ------------------------------------------------------------------ *)
(* Properties of a whole playback (under SpecLive)                     *)
(* ------------------------------------------------------------------ *)
\* the state of the playback engine at each place of the program: the
\* call and its safety check still belong to Idle, and Draining lasts
\* until displayMenu() has shown the menu again
Phase(where) ==
  CASE where \in { "idle", "invalid", "check" } -> "Idle"
    [] where = "announcing" -> "Announcing"
    [] where \in { "loop", "read", "arm", "holdOn", "holdOff" } -> "Playing"
    [] where \in { "draining", "returned" } -> "Draining"
    [] OTHER -> "None"

PhaseOrder ==
  { << "Idle", "Announcing" >>, << "Announcing", "Playing" >>,
    << "Playing", "Draining" >>, << "Draining", "Idle" >> }

\* the return of a rejected song, which is no playback
RejectStep == pc = "check" /\ pc' = "returned"

\* C20: a playback goes Idle, Announcing, Playing, Draining, Idle in that
\* order, and a playable song that was called for always gets back to
\* Idle; during Announcing the banner is on the display; Playing is entered
\* with the outputs cleared, no note played, notesPlayed = 0 and
\* lastLineDisplayed = NO_LINE; the loop is left when notesPlayed =
\* trueLength, and then the tone is stopped and the lights are cleared
\* before the completion message is rendered and the closing wait starts.
C20_PlaybackPhases ==
  /\ [][ (Phase(pc') # Phase(pc) /\ ~RejectStep) =>
            << Phase(pc), Phase(pc') >> \in PhaseOrder ]_vars
  /\ [] ( pc = "announcing" =>
            (lcd = BannerScreen(song.songIdx) /\ log.bodyRuns = << >>) )
  /\ [][ (Phase(pc) = "Announcing" /\ Phase(pc') = "Playing") =>
            /\ notesPlayed' = 0
            /\ lastLineDisplayed' = NO_LINE
            /\ lcd' = LcdClear
            /\ Lit(pins') = {}
            /\ toneHz' = 0
            /\ log'.bodyRuns = << >> ]_vars
  /\ [][ (Phase(pc) = "Playing" /\ Phase(pc') = "Draining") =>
            /\ notesPlayed = melodyLenOf(song)
            /\ toneHz' = 0
            /\ Lit(pins') = {}
            /\ lcd' = CompleteScreen
            /\ log'.closing = << "noTone", "allLEDsOff", "lcdClear",
                                 "lcdPrint", "lcdPrint", "wait" >> ]_vars
  /\ (pc = "check" /\ Playable(song)) ~> (pc = "idle")

C20_Witness ==
  /\ pc = "returned"
  /\ Playable(song)
  /\ song.row = "test"
  /\ notesPlayed = MaxLen
  /\ lcd = CompleteScreen
  /\ log.closing # << >>

(* ------------------------------------------------------------------ *)
(* The line index over the notes (under SpecLines)                     *)
(* ------------------------------------------------------------------ *)
\* the line index returned for note n on the line table counts; the byte
\* read past the table has no part in it
LineIndexAt(counts, n, totalNotes) ==
  getLineInfoFromNotesPlayed(counts, n, totalNotes, 0).lineIndex

\* C21: the line index returned for a note is at least the one returned
\* for any earlier note of the same song, also past trueLength and on a
\* table without terminator; so, from the clean start to the end of a
\* playback, lastLineDisplayed never decreases and every line rendered
\* has a greater index than all the lines rendered before it.
C21_LineIndexNeverDecreases ==
  /\ [] ( pc = "located" =>
            \A n \in 0 .. call.notesPlayed - 1 :
               LineIndexAt(call.counts, n, call.totalNotes) <= ret.lineIndex )
  /\ [][ LookUp =>
           /\ lastLineDisplayed' >= lastLineDisplayed
           /\ \A n \in 0 .. notesPlayed - 1 :
                LineIndexAt(lineNoteCountsOf(song), n, melodyLenOf(song))
                  <= lastLineDisplayed' ]_vars
  /\ [][ Renders => \A j \in shown : j < lastLineDisplayed' ]_vars
  /\ [][ LineLookedUp => lastLineDisplayed' = lastLineDisplayed ]_vars

\* Itsy Bitsy Spider was played to the end: its 16 lines and the
\* terminator line were rendered one after the other
C21_Witness ==
  /\ Completed
  /\ song = CatalogSong(2)
  /\ shown = 0 .. 16
  /\ lastLineDisplayed = 16

(* ------------------------------------------------------------------ *)
(* The note range of the current line (under SpecLocate)               *)
(* ------------------------------------------------------------------ *)
\* the call is made for a song of the catalog: its own line table and its
\* own melodyLen
CatalogCall ==
  \E k \in 0 .. SONG_COUNT - 1 :
     /\ call.counts = lineNoteCountsOf(CatalogSong(k))
     /\ call.totalNotes = melodyLenOf(CatalogSong(k))

\* C22: for a catalog song and a note n with 0 <= n < trueLength, the note
\* lies in the range returned for it:
\* lineStartNote <= n < lineStartNote + lineNoteCount.
C22_NoteInsideReportedLine ==
  (pc = "located" /\ CatalogCall /\ call.notesPlayed < call.totalNotes) =>
     /\ ret.lineStartNote <= call.notesPlayed
     /\ call.notesPlayed < ret.lineStartNote + ret.lineNoteCount

\* the last note of Itsy Bitsy Spider, the one note of the catalog that
\* lies past the sum of its line counts (47 of 48): the range comes from
\* the fallback
C22_Witness ==
  /\ pc = "located"
  /\ call.counts = lineNoteCounts2
  /\ call.totalNotes = 48
  /\ call.notesPlayed = 47
  /\ ret.lineIndex = 16
  /\ ret.lineStartNote = 47
  /\ ret.lineNoteCount = 1

=============================================================================
